---------------------------- MODULE Spec2Model ----------------------------
(***************************************************************************)
(* Model of src/methods/eigen_embedding.hpp (tapkee): the dispatch         *)
(* function eigen_embedding and the three eigen_embedding_impl::embed      *)
(* strategies (ARPACK, EIGEN_DENSE_SELFADJOINT_SOLVER, RANDOMIZED).        *)
(*                                                                         *)
(* Scalars (DefaultScalarType) are fixed-point integers: the integer X     *)
(* stands for the real X / ONE.  NaN is a distinguished value which every  *)
(* arithmetic operation propagates and every comparison rejects, as in     *)
(* IEEE-754.  A matrix is a sequence of columns, a column a sequence of    *)
(* scalars.                                                                *)
(***************************************************************************)
EXTENDS Integers, Sequences, FiniteSets, TLC

(***************************************************************************)
(* Fixed-point scalars                                                     *)
(***************************************************************************)
\* the precision of DefaultScalarType in the model: scalars are held to
\* LIMB * LIMB parts of 1, and wide products are computed limb by limb
LIMB == 1000
\* the scalar 1.0; the resolution of the model's scalars is 1/ONE = 1e-6
ONE == LIMB * LIMB
\* the literal 1e-4 of `if (norm < 1e-4)`, in units of 1/ONE
TOLERANCE == ONE \div 10000
\* IEEE not-a-number (0 * inf), outside the range of the finite scalars
NaN == 2000000000
\* 2.f*M_PI in units of 1/ONE
TWO_PI == 6283185
\* log(2) in units of 1/ONE
LN2 == 693147

Abs(x) == IF x < 0 THEN -x ELSE x

Sgn(x) == IF x < 0 THEN -1 ELSE IF x > 0 THEN 1 ELSE 0

\* |a| * |b| / ONE rounded down, exactly, from the limbs of a and b
MulAbs(a, b) ==
    LET a1 == a \div LIMB
        a0 == a % LIMB
        b1 == b \div LIMB
        b0 == b % LIMB
        c  == a1 * b0 + a0 * b1
    IN  a1 * b1 + c \div LIMB + ((c % LIMB) * LIMB + a0 * b0) \div ONE

\* the product a*b of two finite scalars, rounded toward zero
MulFx(a, b) == Sgn(a) * Sgn(b) * MulAbs(Abs(a), Abs(b))

RECURSIVE Pow10(_)
Pow10(k) == IF k = 0 THEN 1 ELSE 10 * Pow10(k - 1)

RECURSIVE DivDigits(_, _, _)
\* the first k decimal digits of r / b, 0 <= r < b (long division)
DivDigits(r, b, k) ==
    IF k = 0 THEN 0
    ELSE ((r * 10) \div b) * Pow10(k - 1) + DivDigits((r * 10) % b, b, k - 1)

\* the quotient a/b of two finite scalars, b # 0, rounded toward zero
DivFx(a, b) ==
    Sgn(a) * Sgn(b) *
        ((Abs(a) \div Abs(b)) * ONE + DivDigits(Abs(a) % Abs(b), Abs(b), 6))

\* x * x for a finite scalar, exactly, as the pair << h, l >> that stands
\* for h * ONE + l with 0 <= l < ONE
Square2(x) ==
    LET x1 == Abs(x) \div LIMB
        x0 == Abs(x) % LIMB
        c  == 2 * x1 * x0
        f  == (c % LIMB) * LIMB + x0 * x0
    IN  << x1 * x1 + c \div LIMB + f \div ONE, f % ONE >>

Add2(p, q) == << p[1] + q[1] + (p[2] + q[2]) \div ONE, (p[2] + q[2]) % ONE >>

LessEq2(p, q) == p[1] < q[1] \/ (p[1] = q[1] /\ p[2] <= q[2])

RECURSIVE ISqrt2In(_, _, _)
\* the largest r in lo..hi with r*r <= q, q a pair as above (bisection)
ISqrt2In(q, lo, hi) ==
    IF lo >= hi THEN lo
    ELSE LET mid == (lo + hi + 1) \div 2
         IN  IF LessEq2(Square2(mid), q) THEN ISqrt2In(q, mid, hi)
             ELSE ISqrt2In(q, lo, mid - 1)

\* floor of the square root of the number the pair q stands for; the
\* model's scalars stay below 40
ISqrt2(q) == ISqrt2In(q, 0, 40 * ONE)

\* sqrt of a finite scalar x >= 0
SqrtFx(x) == ISqrt2(<< x, 0 >>)

RECURSIVE AtanhSeries(_, _, _, _)
\* z^k/k + z^(k+2)/(k+2) + ... where pow = z^k, with `left` terms
AtanhSeries(pow, z2, k, left) ==
    IF left = 0 \/ pow = 0 THEN 0
    ELSE pow \div k + AtanhSeries(MulFx(pow, z2), z2, k + 2, left - 1)

RECURSIVE LogFx(_)
\* log(v) for a finite scalar 0 < v <= 1: log v = log(2v) - log 2 until
\* v > 1/2, then log v = 2 atanh((v-1)/(v+1))
LogFx(v) ==
    IF 2 * v <= ONE THEN LogFx(2 * v) - LN2
    ELSE LET z == DivFx(v - ONE, v + ONE)
         IN  2 * AtanhSeries(z, MulFx(z, z), 1, 8)

RECURSIVE CosSeries(_, _, _, _)
\* term - term*x^2/((k+1)(k+2)) + ... : the Taylor series of cos
CosSeries(term, x2, k, left) ==
    IF left = 0 \/ term = 0 THEN 0
    ELSE term + CosSeries(-(MulFx(term, x2) \div ((k + 1) * (k + 2))),
                          x2, k + 2, left - 1)

\* cos(x) for a finite scalar 0 <= x <= 2 pi, by the symmetries of cos
\* around pi and pi/2 and the Taylor series on [0, pi/2]
CosFx(x) ==
    LET PI == TWO_PI \div 2
        a  == IF x > PI THEN TWO_PI - x ELSE x
        b  == IF 2 * a > PI THEN PI - a ELSE a
        c  == CosSeries(ONE, MulFx(b, b), 0, 8)
    IN  IF 2 * a > PI THEN -c ELSE c

\* sin(x) = cos(x - pi/2) for a finite scalar 0 <= x <= 2 pi
SinFx(x) ==
    LET QUARTER == TWO_PI \div 4
    IN  IF x >= QUARTER THEN CosFx(x - QUARTER)
        ELSE CosFx(QUARTER - x)

\* a finite scalar, as opposed to NaN
Finite(x) == x # NaN

\* a + b, a - b and a * b of DefaultScalarType: NaN propagates
Add(a, b) == IF Finite(a) /\ Finite(b) THEN a + b ELSE NaN

Sub(a, b) == IF Finite(a) /\ Finite(b) THEN a - b ELSE NaN

Mul(a, b) == IF Finite(a) /\ Finite(b) THEN MulFx(a, b) ELSE NaN

\* a < b of DefaultScalarType: false when either side is NaN
Less(a, b) == Finite(a) /\ Finite(b) /\ a < b

(***************************************************************************)
(* Columns and matrices (a matrix is the sequence of its columns)          *)
(***************************************************************************)
ZeroCol(rows) == [r \in 1..rows |-> 0]

ZeroMatrix(rows, cols) == [c \in 1..cols |-> ZeroCol(rows)]

ColHasNaN(col) == \E r \in DOMAIN col : ~Finite(col[r])

RECURSIVE SumTo(_, _)
\* f[1] + ... + f[k] of finite integers
SumTo(f, k) == IF k = 0 THEN 0 ELSE f[k] + SumTo(f, k - 1)

\* Y.col(i).dot(Y.col(j)): the rounded products, summed
Dot(a, b) ==
    IF ColHasNaN(a) \/ ColHasNaN(b) THEN NaN
    ELSE SumTo([r \in DOMAIN a |-> MulFx(a[r], b[r])], Len(a))

RECURSIVE SumSquares(_, _)
\* col[1]^2 + ... + col[k]^2, exactly, as a pair
SumSquares(col, k) ==
    IF k = 0 THEN << 0, 0 >>
    ELSE Add2(Square2(col[k]), SumSquares(col, k - 1))

\* Y.col(i).norm(): the square root of the exact sum of squares
Norm(col) ==
    IF ColHasNaN(col) THEN NaN ELSE ISqrt2(SumSquares(col, Len(col)))

\* Y.col(i) -= r * Y.col(j)
SubtractScaled(col, r, other) ==
    [k \in DOMAIN col |-> Sub(col[k], Mul(r, other[k]))]

\* x * (1.f / norm) for one entry x: 1.f / 0 is +inf and 0 * inf is NaN.
\* A nonzero x never meets norm = 0 (a column of norm 0 is the zero column),
\* so no infinite scalar is ever stored.  For norm # 0 the product with the
\* reciprocal is the quotient x / norm to the model's precision.
TimesReciprocal(x, norm) ==
    IF ~Finite(x) \/ ~Finite(norm) THEN NaN
    ELSE IF norm = 0 THEN NaN
    ELSE DivFx(x, norm)

\* Y.col(i) *= (1.f / norm)
ScaleByReciprocal(col, norm) ==
    [k \in DOMAIN col |-> TimesReciprocal(col[k], norm)]

\* for (int k = i; k < Y.cols(); k++) Y.col(k).setZero();
ZeroFrom(Y, i) ==
    [k \in DOMAIN Y |-> IF k >= i THEN ZeroCol(Len(Y[k])) ELSE Y[k]]

RECURSIVE ProjectOut(_, _, _, _)
\* for (j = 0; j < i; j++) { r = Y.col(i).dot(Y.col(j)); Y.col(i) -= r*Y.col(j); }
\* started at column j (1-based), col being the current Y.col(i)
ProjectOut(col, Y, j, i) ==
    IF j >= i THEN col
    ELSE ProjectOut(SubtractScaled(col, Dot(col, Y[j]), Y[j]), Y, j + 1, i)

\* the norm the i-th iteration of the orthonormalization loop computes
ResidualNorm(Y, i) == Norm(ProjectOut(Y[i], Y, 1, i))

\* if (norm < 1e-4)
BelowTolerance(norm) == Less(norm, TOLERANCE)

\* the columns after the test of iteration i: zeroed from i on when the
\* norm is below the tolerance
AfterTest(Y, i, norm) == IF BelowTolerance(norm) THEN ZeroFrom(Y, i) ELSE Y

\* one iteration (column i, 1-based) of the loop of lines 109-123: project,
\* test, and then, in either case, scale column i by 1/norm
OrthonormalizeColumn(Y, i) ==
    LET col   == ProjectOut(Y[i], Y, 1, i)
        norm  == Norm(col)
        tested == AfterTest([Y EXCEPT ![i] = col], i, norm)
    IN  [tested EXCEPT ![i] = ScaleByReciprocal(tested[i], norm)]

(***************************************************************************)
(* Bounds of the model                                                     *)
(***************************************************************************)
\* the largest dimension n of a weight matrix
MaxN == 3
\* the largest target_dimension and the largest skip a caller passes
MaxTarget == 2
MaxSkip == 1
\* the number of consecutive eigen_embedding calls of the sequential caller
NumCalls == 2
\* the largest value rand() returns (the platform's RAND_MAX, scaled down)
RAND_MAX == 7
\* the largest n and target_dimension + skip of two concurrent calls
ConcMaxN == 1
ConcMaxCols == 2

(***************************************************************************)
(* rand() and the Box-Muller transform (lines 92-96, 100-103)              *)
(***************************************************************************)
\* the generator behind rand() is a linear congruential one whose state
\* has twice the digits of its output
RandStates == (RAND_MAX + 1) * (RAND_MAX + 1)

\* the generator state after one rand()
RandNext(s) == (13 * s + 11) % RandStates

\* the value that rand() returns: the high digit of the new state
RandValue(s) == RandNext(s) \div (RAND_MAX + 1)

\* (DefaultScalarType)(rand()+1.f)/((float)RAND_MAX+2.f), strictly in (0,1)
Uniform(r) == ((r + 1) * ONE) \div (RAND_MAX + 2)

\* len = sqrt(-2.f*log(v1))
BoxMullerLen(v1) == SqrtFx(-2 * LogFx(v1))

\* len*cos(2.f*M_PI*v2)
BoxMullerCos(v1, v2) == MulFx(BoxMullerLen(v1), CosFx(MulFx(TWO_PI, v2)))

\* len*sin(2.f*M_PI*v2)
BoxMullerSin(v1, v2) == MulFx(BoxMullerLen(v1), SinFx(MulFx(TWO_PI, v2)))

\* O(i,j) = value, rows and columns counted from 1
SetEntry(M, i, j, value) == [M EXCEPT ![j][i] = value]

\* the assignments of one iteration of the pair loop (lines 94-96) when
\* j+1 < O.cols(), and of the leftover loop (lines 102-103) otherwise
WriteSamples(M, i, j, v1, v2) ==
    IF j < Len(M)
    THEN SetEntry(SetEntry(M, i, j, BoxMullerCos(v1, v2)),
                  i, j + 1, BoxMullerSin(v1, v2))
    ELSE SetEntry(M, i, j, BoxMullerCos(v1, v2))

\* the column index after that iteration: j += 2 or j++
NextColumn(M, j) == IF j < Len(M) THEN j + 2 ELSE j + 1

(***************************************************************************)
(* The collaborators: MatrixTypeOperation and the eigensolvers             *)
(***************************************************************************)
\* operation(X): the product wm * X of the "apply" capability.  An entry of
\* a column that holds a NaN is NaN (0 * NaN is NaN).
Operation(wm, X) ==
    [j \in DOMAIN X |->
        [i \in 1..Len(wm) |->
            IF ColHasNaN(X[j]) THEN NaN
            ELSE SumTo([k \in 1..Len(wm) |-> MulFx(X[j][k], wm[k][i])],
                       Len(wm))]]

IsDiagonal(A) ==
    \A c \in DOMAIN A : \A r \in DOMAIN A[c] : r # c => A[c][r] = 0

UnitCol(n, k) == [r \in 1..n |-> IF r = k THEN ONE ELSE 0]

\* the place of d[k] when d is sorted ascending (ties in index order)
AscendingPlace(d, k) ==
    1 + Cardinality({j \in DOMAIN d : d[j] < d[k] \/ (d[j] = d[k] /\ j < k)})

\* DefaultDenseSelfAdjointEigenSolver: all eigenpairs, ascending by
\* eigenvalue.  The eigenpairs of a diagonal matrix are its diagonal entries
\* with the standard basis vectors; those of any other matrix (asTerm) are
\* kept as terms naming the matrix and the place in its ascending spectrum.
SelfAdjointEigenSolver(A, n, asTerm) ==
    IF n = 0 THEN [eigenvalues |-> << >>, eigenvectors |-> << >>]
    ELSE IF asTerm
    THEN [eigenvalues  |-> [p \in 1..n |-> [eigenvalue |-> p, of |-> A]],
          eigenvectors |-> [p \in 1..n |-> [eigenvector |-> p, of |-> A]]]
    ELSE LET d == [k \in 1..n |-> A[k][k]]
             at(p) == CHOOSE k \in 1..n : AscendingPlace(d, k) = p
         IN  [eigenvalues  |-> [p \in 1..n |-> d[at(p)]],
              eigenvectors |-> [p \in 1..n |-> UnitCol(n, at(p))]]

\* ArpackGeneralizedSelfAdjointEigenSolver(wm, nev, code), nev <= n: the nev
\* largest eigenpairs, ascending by eigenvalue
ArpackSolver(A, n, nev) ==
    LET all == SelfAdjointEigenSolver(A, n, ~IsDiagonal(A))
    IN  [eigenvalues  |-> SubSeq(all.eigenvalues, n - nev + 1, n),
         eigenvectors |-> SubSeq(all.eigenvectors, n - nev + 1, n)]

\* Y.householderQr().solve(B1): the least-squares solution, kept as a term
HouseholderQrSolve(Y, B1) == [solve |-> "householderQr", lhs |-> Y, rhs |-> B1]

\* Y * eigenOfB.eigenvectors(): one column per eigenvector, kept as a term
LiftProduct(Y, eigenvectors) ==
    [k \in DOMAIN eigenvectors |-> [basis |-> Y, times |-> eigenvectors[k]]]

(***************************************************************************)
(* Slicing and the result (Eigen's block() and tail())                     *)
(***************************************************************************)
\* M.block(0, startCol, blockRows, blockCols) stays inside a matrix of
\* rows x Len(M)
BlockInRange(M, rows, startCol, blockRows, blockCols) ==
    blockRows <= rows /\ startCol + blockCols <= Len(M)

\* M.block(0, startCol, rows, blockCols): columns startCol .. startCol +
\* blockCols - 1, counted from 0
Block(M, startCol, blockCols) == SubSeq(M, startCol + 1, startCol + blockCols)

TailInRange(v, k) == k <= Len(v)

\* v.tail(k): the last k entries
VectorTail(v, k) == SubSeq(v, Len(v) - k + 1, Len(v))

\* what an out-of-range block() or tail() reads in a build without Eigen's
\* assertions: k values that belong to no matrix of the call
Garbage(k) == [p \in 1..k |-> [garbage |-> p]]

EmbeddingResult(embedding, eigenvalues) ==
    [embedding |-> embedding, eigenvalues |-> eigenvalues]

\* EmbeddingResult()
EmptyResult == EmbeddingResult(<< >>, << >>)

(***************************************************************************)
(* The callers' inputs                                                     *)
(***************************************************************************)
\* TAPKEE_EIGEN_EMBEDDING_METHOD, and a value outside the enumeration
Methods == {"ARPACK", "RANDOMIZED", "EIGEN_DENSE_SELFADJOINT_SOLVER"}

MethodTags == Methods \cup {"UNRECOGNIZED"}

Identity(n) == [c \in 1..n |-> UnitCol(n, c)]

\* diag(d_1 < ... < d_n), d_k = k/(n+1)
Increasing(n) ==
    [c \in 1..n |-> [r \in 1..n |-> IF r = c THEN (c * ONE) \div (n + 1) ELSE 0]]

\* the rank-1 matrix whose rows are all (1/2, ..., 1/2)
RankOne(n) == [c \in 1..n |-> [r \in 1..n |-> ONE \div 2]]

\* symmetric n x n weight matrices
WeightMatrices(n) == {Identity(n), Increasing(n), RankOne(n), ZeroMatrix(n, n)}

\* the arguments of one eigen_embedding call; target_dimension + skip may
\* exceed n, which the signature allows
Inputs ==
    { [method |-> m, wm |-> w, target_dimension |-> t, skip |-> s] :
        m \in MethodTags,
        w \in UNION {WeightMatrices(n) : n \in 1..MaxN},
        t \in 0..MaxTarget, s \in 0..MaxSkip }

\* the arguments of a call that runs concurrently with another
ConcInputs ==
    { a \in Inputs : /\ a.method = "RANDOMIZED"
                     /\ Len(a.wm) <= ConcMaxN
                     /\ a.wm = Identity(Len(a.wm))
                     /\ a.target_dimension + a.skip <= ConcMaxCols }

NoInput == [method |-> "none", wm |-> << >>, target_dimension |-> 0, skip |-> 0]

(***************************************************************************)
(* State                                                                   *)
(***************************************************************************)
\* the threads that call eigen_embedding
Calls == {1, 2}

VARIABLES
    rng,         \* the state of the process-wide generator behind rand()
    noArpack,    \* whether the build defines TAPKEE_NO_ARPACK
    callsMade,   \* calls the sequential caller has started
    prev,        \* the probe matrix and result of its previous call
    pc,          \* pc[c]: where call c stands
    args,        \* args[c]: method, wm, target_dimension, skip
    frame,       \* frame[c]: the locals of RANDOMIZED embed
    solver,      \* solver[c]: the eigenpairs the strategy's solver returned
    result,      \* result[c]: the EmbeddingResult returned
    log,         \* log[c]: the stages the call has been through, in order
    draws,       \* draws[c]: rand() calls the call has made
    startRng,    \* startRng[c]: the generator state when the call started
    deficientAt  \* deficientAt[c]: first column whose norm was < 1e-4, or 0

vars ==
    << rng, noArpack, callsMade, prev, pc, args, frame, solver, result, log,
       draws, startRng, deficientAt >>

NoFrame ==
    [O |-> << >>, i |-> 0, j |-> 0, seen |-> 0, v1 |-> 0,
     Y |-> << >>, col |-> 0, B1 |-> << >>, B |-> << >>, lifted |-> << >>]

NoSolver == [eigenvalues |-> << >>, eigenvectors |-> << >>]

NoPrev == [O |-> << >>, result |-> EmptyResult]

Init ==
    /\ rng \in 0..RAND_MAX
    /\ noArpack \in BOOLEAN
    /\ callsMade = 0
    /\ prev = NoPrev
    /\ pc = [c \in Calls |-> "idle"]
    /\ args = [c \in Calls |-> NoInput]
    /\ frame = [c \in Calls |-> NoFrame]
    /\ solver = [c \in Calls |-> NoSolver]
    /\ result = [c \in Calls |-> EmptyResult]
    /\ log = [c \in Calls |-> << >>]
    /\ draws = [c \in Calls |-> 0]
    /\ startRng = [c \in Calls |-> 0]
    /\ deficientAt = [c \in Calls |-> 0]

\* n, the dimension of the weight matrix (wm.rows() = wm.cols())
N(c) == Len(args[c].wm)

\* target_dimension + skip
M(c) == args[c].target_dimension + args[c].skip

(***************************************************************************)
(* The callers                                                             *)
(***************************************************************************)
\* call c enters eigen_embedding(a.method, a.wm, a.target_dimension, a.skip)
Enter(c, a) ==
    /\ args' = [args EXCEPT ![c] = a]
    /\ pc' = [pc EXCEPT ![c] = "dispatch"]
    /\ frame' = [frame EXCEPT ![c] = NoFrame]
    /\ solver' = [solver EXCEPT ![c] = NoSolver]
    /\ result' = [result EXCEPT ![c] = EmptyResult]
    /\ log' = [log EXCEPT ![c] = << >>]
    /\ draws' = [draws EXCEPT ![c] = 0]
    /\ startRng' = [startRng EXCEPT ![c] = rng]
    /\ deficientAt' = [deficientAt EXCEPT ![c] = 0]
    /\ UNCHANGED << rng, noArpack >>

\* the sequential caller's first call, with any arguments
Invoke ==
    /\ pc[1] = "idle"
    /\ callsMade = 0
    /\ callsMade' = 1
    /\ prev' = prev
    /\ \E a \in Inputs : Enter(1, a)

\* the sequential caller calls again with identical arguments, keeping what
\* the call before built and returned
InvokeAgain ==
    /\ pc[1] = "done"
    /\ callsMade < NumCalls
    /\ callsMade' = callsMade + 1
    /\ prev' = [O |-> frame[1].O, result |-> result[1]]
    /\ Enter(1, args[1])

\* a thread calls the RANDOMIZED strategy while another thread may be in it
InvokeConcurrently(c) ==
    /\ pc[c] = "idle"
    /\ UNCHANGED << callsMade, prev >>
    /\ \E a \in ConcInputs : Enter(c, a)

(***************************************************************************)
(* eigen_embedding: the switch of lines 168-183                            *)
(***************************************************************************)
\* the strategy the switch selects for a method tag, "none" past the switch
StrategyOf(method) ==
    CASE method = "ARPACK" -> "arpack"
      [] method = "RANDOMIZED" -> "randomized"
      [] method = "EIGEN_DENSE_SELFADJOINT_SOLVER" -> "dense"
      [] OTHER -> "none"

Dispatch(c) ==
    /\ pc[c] = "dispatch"
    /\ IF StrategyOf(args[c].method) = "none"
       THEN /\ result' = [result EXCEPT ![c] = EmptyResult]
            /\ pc' = [pc EXCEPT ![c] = "done"]
       ELSE /\ pc' = [pc EXCEPT ![c] = StrategyOf(args[c].method)]
            /\ UNCHANGED result
    /\ UNCHANGED << rng, noArpack, callsMade, prev, args, frame, solver, log,
                    draws, startRng, deficientAt >>

(***************************************************************************)
(* eigen_embedding_impl<ARPACK>::embed, lines 45-58                        *)
(***************************************************************************)
\* the result of lines 52-56 from the solver's eigenpairs
ArpackResult(arpack, target_dimension, skip) ==
    EmbeddingResult(Block(arpack.eigenvectors, skip, target_dimension),
                    VectorTail(arpack.eigenvalues, target_dimension))

ArpackEmbed(c) ==
    /\ pc[c] = "arpack"
    /\ IF noArpack
       THEN /\ result' = [result EXCEPT ![c] = EmptyResult]
            /\ pc' = [pc EXCEPT ![c] = "done"]
            /\ UNCHANGED << solver, log >>
       ELSE IF M(c) > N(c)
       THEN \* the solver is asked for more eigenpairs than the matrix has
            /\ pc' = [pc EXCEPT ![c] = "aborted"]
            /\ UNCHANGED << solver, result, log >>
       ELSE LET arpack == ArpackSolver(args[c].wm, N(c), M(c))
            IN  /\ solver' = [solver EXCEPT ![c] = arpack]
                /\ log' = [log EXCEPT ![c] = Append(@, "arpack")]
                /\ result' = [result EXCEPT ![c] =
                       ArpackResult(arpack, args[c].target_dimension,
                                    args[c].skip)]
                /\ pc' = [pc EXCEPT ![c] = "done"]
    /\ UNCHANGED << rng, noArpack, callsMade, prev, args, frame, draws,
                    startRng, deficientAt >>

(***************************************************************************)
(* eigen_embedding_impl<EIGEN_DENSE_SELFADJOINT_SOLVER>::embed, lines 65-75*)
(***************************************************************************)
\* the result of lines 72-74 from the solver's eigenpairs; an out-of-range
\* block() or tail() reads values of no matrix
DenseResult(eig, n, target_dimension, skip) ==
    EmbeddingResult(
        IF BlockInRange(eig.eigenvectors, n, skip, n, target_dimension)
        THEN Block(eig.eigenvectors, skip, target_dimension)
        ELSE Garbage(target_dimension),
        IF TailInRange(eig.eigenvalues, target_dimension)
        THEN VectorTail(eig.eigenvalues, target_dimension)
        ELSE Garbage(target_dimension))

\* block() and tail() of lines 72 and 74 stay inside the solver's matrices
DenseInRange(eig, n, target_dimension, skip) ==
    /\ BlockInRange(eig.eigenvectors, n, skip, n, target_dimension)
    /\ TailInRange(eig.eigenvalues, target_dimension)

DenseEmbed(c) ==
    /\ pc[c] = "dense"
    /\ LET eig == SelfAdjointEigenSolver(args[c].wm, N(c),
                                         ~IsDiagonal(args[c].wm))
           ok  == DenseInRange(eig, N(c), args[c].target_dimension,
                               args[c].skip)
       IN  /\ solver' = [solver EXCEPT ![c] = eig]
           /\ log' = [log EXCEPT ![c] = Append(@, "eigensolve")]
           /\ \/ /\ ok
                 /\ result' = [result EXCEPT ![c] =
                        DenseResult(eig, N(c), args[c].target_dimension,
                                    args[c].skip)]
                 /\ pc' = [pc EXCEPT ![c] = "done"]
              \/ \* out of range, Eigen's assertions enabled: the call aborts
                 /\ ~ok
                 /\ pc' = [pc EXCEPT ![c] = "aborted"]
                 /\ UNCHANGED result
              \/ \* out of range, assertions disabled: whatever lies there
                 /\ ~ok
                 /\ result' = [result EXCEPT ![c] =
                        DenseResult(eig, N(c), args[c].target_dimension,
                                    args[c].skip)]
                 /\ pc' = [pc EXCEPT ![c] = "done"]
    /\ UNCHANGED << rng, noArpack, callsMade, prev, args, frame, draws,
                    startRng, deficientAt >>

(***************************************************************************)
(* eigen_embedding_impl<RANDOMIZED>::embed, lines 82-131                   *)
(***************************************************************************)
\* line 86: DenseMatrix O(wm.rows(), target_dimension+skip); the loops of
\* lines 87-105 start at row 0, column 0 (here 1, 1)
AllocateProbe(c) ==
    /\ pc[c] = "randomized"
    /\ frame' = [frame EXCEPT ![c].O = ZeroMatrix(N(c), M(c)),
                              ![c].i = 1, ![c].j = 1]
    /\ pc' = [pc EXCEPT ![c] = "draw_v1"]
    /\ UNCHANGED << rng, noArpack, callsMade, prev, args, solver, result, log,
                    draws, startRng, deficientAt >>

\* the loops of lines 87-105 have an entry left to fill
ProbeUnfinished(c) == frame[c].i <= N(c) /\ M(c) > 0

\* rand() of lines 92, 93, 100, 101, first half: it reads the generator
RandLoad(c) ==
    /\ pc[c] \in {"draw_v1", "draw_v2"}
    /\ ProbeUnfinished(c)
    /\ frame' = [frame EXCEPT ![c].seen = rng]
    /\ draws' = [draws EXCEPT ![c] = @ + 1]
    /\ pc' = [pc EXCEPT ![c] = IF pc[c] = "draw_v1" THEN "store_v1"
                               ELSE "store_v2"]
    /\ UNCHANGED << rng, noArpack, callsMade, prev, args, solver, result, log,
                    startRng, deficientAt >>

\* rand() of lines 92 and 100, second half: it writes the generator back
\* and returns; v1 is assigned
RandStoreV1(c) ==
    /\ pc[c] = "store_v1"
    /\ rng' = RandNext(frame[c].seen)
    /\ frame' = [frame EXCEPT ![c].v1 = Uniform(RandValue(frame[c].seen))]
    /\ pc' = [pc EXCEPT ![c] = "draw_v2"]
    /\ UNCHANGED << noArpack, callsMade, prev, args, solver, result, log,
                    draws, startRng, deficientAt >>

\* the row and column the loops of lines 87-105 visit after (i, j)
AfterEntry(O, i, j) ==
    IF NextColumn(O, j) > Len(O) THEN << i + 1, 1 >>
    ELSE << i, NextColumn(O, j) >>

\* rand() of lines 93 and 101, second half; v2 is assigned and lines 94-96
\* (or 102-103) fill O(i,j) and O(i,j+1) (or O(i,j))
RandStoreV2(c) ==
    /\ pc[c] = "store_v2"
    /\ rng' = RandNext(frame[c].seen)
    /\ LET v2   == Uniform(RandValue(frame[c].seen))
           next == AfterEntry(frame[c].O, frame[c].i, frame[c].j)
       IN  frame' = [frame EXCEPT
                        ![c].O = WriteSamples(@, frame[c].i, frame[c].j,
                                              frame[c].v1, v2),
                        ![c].i = next[1], ![c].j = next[2]]
    /\ pc' = [pc EXCEPT ![c] = "draw_v1"]
    /\ UNCHANGED << noArpack, callsMade, prev, args, solver, result, log,
                    draws, startRng, deficientAt >>

\* the loop of line 87 ends
GenerateDone(c) ==
    /\ pc[c] = "draw_v1"
    /\ ~ProbeUnfinished(c)
    /\ log' = [log EXCEPT ![c] = Append(@, "generate_O")]
    /\ pc' = [pc EXCEPT ![c] = "apply_O"]
    /\ UNCHANGED << rng, noArpack, callsMade, prev, args, frame, solver,
                    result, draws, startRng, deficientAt >>

\* lines 106-108: DenseMatrix Y = operation(O)
ApplyToO(c) ==
    /\ pc[c] = "apply_O"
    /\ frame' = [frame EXCEPT ![c].Y = Operation(args[c].wm, frame[c].O),
                              ![c].col = 1]
    /\ log' = [log EXCEPT ![c] = Append(@, "apply")]
    /\ pc' = [pc EXCEPT ![c] = "orthonormalize"]
    /\ UNCHANGED << rng, noArpack, callsMade, prev, args, solver, result,
                    draws, startRng, deficientAt >>

\* one iteration of the loop of lines 109-123
OrthonormalizeStep(c) ==
    /\ pc[c] = "orthonormalize"
    /\ frame[c].col <= M(c)
    /\ frame' = [frame EXCEPT
                    ![c].Y = OrthonormalizeColumn(@, frame[c].col),
                    ![c].col = @ + 1]
    /\ deficientAt' = [deficientAt EXCEPT ![c] =
           IF @ = 0 /\ BelowTolerance(ResidualNorm(frame[c].Y, frame[c].col))
           THEN frame[c].col ELSE @]
    /\ UNCHANGED << rng, noArpack, callsMade, prev, args, pc, solver, result,
                    log, draws, startRng >>

\* a variant of the end of the loop that returns to the caller as soon as
\* some column was found rank deficient, as the loop's comment "rank
\* deficient, early exit" suggests
OrthonormalizeReturnsEarly(c) ==
    /\ pc[c] = "orthonormalize"
    /\ frame[c].col > M(c)
    /\ log' = [log EXCEPT ![c] = Append(@, "orthonormalize")]
    /\ pc' = [pc EXCEPT ![c] = IF deficientAt[c] # 0 THEN "done"
                                                    ELSE "apply_Y"]
    /\ UNCHANGED << rng, noArpack, callsMade, prev, args, frame, solver,
                    result, draws, startRng, deficientAt >>

\* the loop of line 109 ends
OrthonormalizeDone(c) ==
    /\ pc[c] = "orthonormalize"
    /\ frame[c].col > M(c)
    /\ log' = [log EXCEPT ![c] = Append(@, "orthonormalize")]
    /\ pc' = [pc EXCEPT ![c] = "apply_Y"]
    /\ UNCHANGED << rng, noArpack, callsMade, prev, args, frame, solver,
                    result, draws, startRng, deficientAt >>

\* line 125: DenseMatrix B1 = operation(Y)
ApplyToY(c) ==
    /\ pc[c] = "apply_Y"
    /\ frame' = [frame EXCEPT ![c].B1 = Operation(args[c].wm, frame[c].Y)]
    /\ log' = [log EXCEPT ![c] = Append(@, "apply")]
    /\ pc' = [pc EXCEPT ![c] = "qr_solve"]
    /\ UNCHANGED << rng, noArpack, callsMade, prev, args, solver, result,
                    draws, startRng, deficientAt >>

\* line 126: DenseMatrix B = Y.householderQr().solve(B1)
QrSolve(c) ==
    /\ pc[c] = "qr_solve"
    /\ frame' = [frame EXCEPT
                    ![c].B = HouseholderQrSolve(frame[c].Y, frame[c].B1)]
    /\ log' = [log EXCEPT ![c] = Append(@, "qr_solve")]
    /\ pc' = [pc EXCEPT ![c] = "eigen_B"]
    /\ UNCHANGED << rng, noArpack, callsMade, prev, args, solver, result,
                    draws, startRng, deficientAt >>

\* line 127: DefaultDenseSelfAdjointEigenSolver eigenOfB(B)
EigenOfB(c) ==
    /\ pc[c] = "eigen_B"
    /\ solver' = [solver EXCEPT ![c] =
           SelfAdjointEigenSolver(frame[c].B, M(c), TRUE)]
    /\ log' = [log EXCEPT ![c] = Append(@, "eigensolve")]
    /\ pc' = [pc EXCEPT ![c] = "lift"]
    /\ UNCHANGED << rng, noArpack, callsMade, prev, args, frame, result,
                    draws, startRng, deficientAt >>

\* the result of lines 128-130 from Y * eigenvectors and the eigenvalues
RandomizedResult(lifted, eigenvalues, target_dimension, skip) ==
    EmbeddingResult(Block(lifted, skip, target_dimension), eigenvalues)

\* lines 128-130: the block of Y*eigenvectors, and the return
Lift(c) ==
    /\ pc[c] = "lift"
    /\ LET lifted == LiftProduct(frame[c].Y, solver[c].eigenvectors)
       IN  /\ frame' = [frame EXCEPT ![c].lifted = lifted]
           /\ result' = [result EXCEPT ![c] =
                  RandomizedResult(lifted, solver[c].eigenvalues,
                                   args[c].target_dimension, args[c].skip)]
    /\ log' = [log EXCEPT ![c] = Append(@, "lift")]
    /\ pc' = [pc EXCEPT ![c] = "done"]
    /\ UNCHANGED << rng, noArpack, callsMade, prev, args, solver, draws,
                    startRng, deficientAt >>

(***************************************************************************)
(* Specifications                                                          *)
(***************************************************************************)
\* one thread: a call, then the same call again (section 5 of the
\* specification: single-threaded, synchronous)
Next ==
    \/ Invoke
    \/ InvokeAgain
    \/ Dispatch(1)
    \/ ArpackEmbed(1)
    \/ DenseEmbed(1)
    \/ AllocateProbe(1)
    \/ RandLoad(1)
    \/ RandStoreV1(1)
    \/ RandStoreV2(1)
    \/ GenerateDone(1)
    \/ ApplyToO(1)
    \/ OrthonormalizeStep(1)
    \/ OrthonormalizeDone(1)
    \/ ApplyToY(1)
    \/ QrSolve(1)
    \/ EigenOfB(1)
    \/ Lift(1)

Spec == Init /\ [][Next]_vars

\* two threads, each making one RANDOMIZED call, interleaved step by step
NextConc ==
    \E c \in Calls :
        \/ InvokeConcurrently(c)
        \/ Dispatch(c)
        \/ AllocateProbe(c)
        \/ RandLoad(c)
        \/ RandStoreV1(c)
        \/ RandStoreV2(c)
        \/ GenerateDone(c)
        \/ ApplyToO(c)
        \/ OrthonormalizeStep(c)
        \/ OrthonormalizeDone(c)
        \/ ApplyToY(c)
        \/ QrSolve(c)
        \/ EigenOfB(c)
        \/ Lift(c)

SpecConc == Init /\ [][NextConc]_vars

(***************************************************************************)
(* The probe matrix of a call that is alone                                *)
(***************************************************************************)
RECURSIVE FillAlone(_, _, _, _, _)
\* the loops of lines 87-105 run from entry (i, j) with the generator in
\* state s and no other caller of rand()
FillAlone(O, s, i, j, rows) ==
    IF i > rows \/ Len(O) = 0 THEN O
    ELSE LET v1   == Uniform(RandValue(s))
             v2   == Uniform(RandValue(RandNext(s)))
             next == AfterEntry(O, i, j)
         IN  FillAlone(WriteSamples(O, i, j, v1, v2), RandNext(RandNext(s)),
                       next[1], next[2], rows)

\* the matrix O that lines 86-105 build from generator state s
ProbeAlone(s, rows, cols) == FillAlone(ZeroMatrix(rows, cols), s, 1, 1, rows)

(***************************************************************************)
(* Properties                                                              *)
(***************************************************************************)
\* call c has returned to its caller
Returned(c) == pc[c] = "done"

\* target_dimension + skip <= n
ValidDimensions(c) == M(c) <= N(c)

\* the method tag names a strategy that this build holds
Available(c) ==
    /\ args[c].method \in Methods
    /\ ~(args[c].method = "ARPACK" /\ noArpack)

\* call c has left the probe generation of lines 86-105 behind
PastGeneration(c) ==
    pc[c] \in {"apply_O", "orthonormalize", "apply_Y", "qr_solve", "eigen_B",
               "lift", "done"} /\ args[c].method = "RANDOMIZED"

\* the order of stages of RANDOMIZED embed
RandomizedStages ==
    << "generate_O", "apply", "orthonormalize", "apply", "qr_solve",
       "eigensolve", "lift" >>

IsPrefix(s, t) == Len(s) <= Len(t) /\ s = SubSeq(t, 1, Len(s))

\* C1: for each of the three method tags that the build holds and
\* target_dimension + skip <= n, the returned EmbeddingResult holds exactly
\* target_dimension eigenvector columns and exactly target_dimension
\* eigenvalues.
C1_ResultShape ==
    \A c \in Calls :
        (Returned(c) /\ Available(c) /\ ValidDimensions(c)) =>
            /\ Len(result[c].embedding) = args[c].target_dimension
            /\ Len(result[c].eigenvalues) = args[c].target_dimension

\* the columns that the strategy of call c slices its eigenvectors from
SpectrumVectors(c) ==
    IF args[c].method = "RANDOMIZED" THEN frame[c].lifted
    ELSE solver[c].eigenvectors

\* C2: the i-th returned eigenvalue and the i-th returned eigenvector both
\* come from place skip + i of the solver's ascending spectrum.
C2_IndexAligned ==
    \A c \in Calls :
        (Returned(c) /\ Available(c) /\ ValidDimensions(c)) =>
            \A i \in 1..args[c].target_dimension :
                /\ i <= Len(result[c].eigenvalues)
                /\ i <= Len(result[c].embedding)
                /\ result[c].eigenvalues[i] =
                       solver[c].eigenvalues[args[c].skip + i]
                /\ result[c].embedding[i] =
                       SpectrumVectors(c)[args[c].skip + i]

\* C3: for diag(d_1 < ... < d_n) and target_dimension + skip <= n the
\* strategy returns the eigenvalues d_(n-target_dimension-skip+1) ..
\* d_(n-skip), each with the standard basis vector of the same index
\* (stated for the dense strategy).
C3_DiagonalSpectrum ==
    \A c \in Calls :
        (/\ Returned(c)
         /\ args[c].method = "EIGEN_DENSE_SELFADJOINT_SOLVER"
         /\ args[c].wm = Increasing(N(c))
         /\ ValidDimensions(c)) =>
            LET first == N(c) - args[c].target_dimension - args[c].skip
            IN  /\ result[c].eigenvalues =
                       [i \in 1..args[c].target_dimension |->
                           args[c].wm[first + i][first + i]]
                /\ result[c].embedding =
                       [i \in 1..args[c].target_dimension |->
                           UnitCol(N(c), first + i)]

\* C4: a call with target_dimension + skip > n is rejected before any
\* computation: it draws no random number, applies no operator, runs no
\* eigensolver and does not return a result.
C4_InvalidDimensionRejected ==
    \A c \in Calls :
        (pc[c] # "idle" /\ Available(c) /\ ~ValidDimensions(c))
            => (draws[c] = 0 /\ log[c] = << >> /\ ~Returned(c))

\* C5: a call whose method is unavailable in the build or unrecognized never
\* returns an empty EmbeddingResult.
C5_UnsupportedReported ==
    \A c \in Calls :
        (pc[c] # "idle" /\ ~Available(c)) =>
            ~(Returned(c) /\ result[c] = EmptyResult)

\* C6: when the orthonormalization found a norm below 1e-4, the returned
\* result shows it: fewer valid columns than requested, or a field beyond
\* the eigenvectors and eigenvalues that flags it.
C6_RankDeficiencySurfaced ==
    \A c \in Calls :
        (/\ Returned(c)
         /\ args[c].method = "RANDOMIZED"
         /\ args[c].target_dimension > 0
         /\ deficientAt[c] # 0)
            => \/ Len(result[c].embedding) < args[c].target_dimension
               \/ DOMAIN result[c] # {"embedding", "eigenvalues"}

\* C7: the second of two consecutive calls with identical arguments returns
\* the result of the first and, for RANDOMIZED, builds the same probe
\* matrix O.
C7_RepeatedCallIdentical ==
    (callsMade >= 2 /\ Returned(1)) =>
        /\ result[1] = prev.result
        /\ frame[1].O = prev.O

\* C8: when the orthonormalization loop has ended and column i was the
\* first with a norm below 1e-4, every column from i on is exactly zero.
C8_DeficientColumnsZero ==
    \A c \in Calls :
        (pc[c] = "apply_Y" /\ deficientAt[c] # 0) =>
            \A k \in deficientAt[c]..M(c) :
                frame[c].Y[k] = ZeroCol(N(c))

\* C9: under every interleaving, the probe matrix O of a call equals the
\* matrix the call builds alone from the generator state it started with.
C9_ProbeAsIfAlone ==
    \A c \in Calls :
        PastGeneration(c) =>
            frame[c].O = ProbeAlone(startRng[c], N(c), M(c))

\* C10: a RANDOMIZED call goes through generate O, apply, orthonormalize,
\* apply, QR solve, eigensolve, lift in this order (two operator
\* applications, one eigensolve), on the rank-deficient path too; an ARPACK
\* or dense call never draws from the random stream.
C10_StageOrder ==
    \A c \in Calls :
        /\ args[c].method = "RANDOMIZED" =>
               /\ IsPrefix(log[c], RandomizedStages)
               /\ Returned(c) => log[c] = RandomizedStages
        /\ args[c].method \in {"ARPACK", "EIGEN_DENSE_SELFADJOINT_SOLVER"} =>
               /\ draws[c] = 0
               /\ pc[c] \notin {"draw_v1", "draw_v2", "store_v1", "store_v2"}

\* a RANDOMIZED call on a rank-deficient path has returned
C10_Witness ==
    /\ Returned(1)
    /\ args[1].method = "RANDOMIZED"
    /\ deficientAt[1] # 0
    /\ deficientAt[1] < M(1)
    /\ ValidDimensions(1)
    /\ log[1] = RandomizedStages

=============================================================================
